---- MODULE Spec2Model ----
(***************************************************************************)
(* cowl: copy-on-write variations of a directory and the merge engine that *)
(* folds a variation back into its source (cmdNew, cmdMerge, cmdClean,     *)
(* mergeWithGit, mergeWithRsync, copyUntrackedWithRsync, ensureBranch).    *)
(*                                                                         *)
(* The file system is the persistent state: the source directories, the    *)
(* variation directories and the registry of meta files.  Every cowl       *)
(* invocation is a process whose position (pc) advances one blocking call  *)
(* at a time; an external tool may fail at every call.                     *)
(***************************************************************************)
EXTENDS Integers, Sequences, FiniteSets, TLC

\* ------------------------------------------------------------------ bounds
\* number of operations in a behaviour: the cowl invocations, and the edits
\* the user makes to a source or a variation between them
MaxOps == 4
\* the arguments of a command line in the specification of parseArgs
MaxArgs == 3

\* ------------------------------------------------------------- the domains
Paths == {"f1", "f2"}
Absent == "absent"
Contents == {"c0", "c1"}
\* a file that `git apply --3way` left with conflict markers
ConflictMarked == "conflict"
EmptyTree == [f \in Paths |-> Absent]

Present(tree) == {f \in Paths : tree[f] # Absent}

\* two source directories with the same basename whose shortHash collides,
\* so that both resolve to the same project root
SrcA == "/w/a"
SrcB == "/x/a"
Sources == {SrcA, SrcB}

Procs == {1, 2}
SeqProcs == {1}

\* ------------------------------------------------------------ utils.ts
Lower(c) == CASE c = "A" -> "a" [] c = "B" -> "b" [] OTHER -> c

IsAlnum(c) == c \in {"a", "b"}

IsSpace(c) == c = " "

RECURSIVE TrimLeft(_)
TrimLeft(s) ==
  IF s # <<>> /\ IsSpace(Head(s)) THEN TrimLeft(Tail(s)) ELSE s

RECURSIVE TrimRight(_)
TrimRight(s) ==
  IF s # <<>> /\ IsSpace(s[Len(s)]) THEN TrimRight(SubSeq(s, 1, Len(s) - 1)) ELSE s

Trim(s) == TrimRight(TrimLeft(s))

\* replace(/[^a-z0-9]+/g, "-")
RECURSIVE ReplaceRuns(_, _)
ReplaceRuns(s, inRun) ==
  IF s = <<>> THEN <<>>
  ELSE IF IsAlnum(Head(s)) THEN <<Head(s)>> \o ReplaceRuns(Tail(s), FALSE)
  ELSE (IF inRun THEN <<>> ELSE <<"-">>) \o ReplaceRuns(Tail(s), TRUE)

\* replace(/^-+|-+$/g, "")
RECURSIVE StripLeft(_)
StripLeft(s) == IF s # <<>> /\ Head(s) = "-" THEN StripLeft(Tail(s)) ELSE s

RECURSIVE StripRight(_)
StripRight(s) ==
  IF s # <<>> /\ s[Len(s)] = "-" THEN StripRight(SubSeq(s, 1, Len(s) - 1)) ELSE s

Slugify(input) ==
  LET lowered == [i \in 1..Len(Trim(input)) |-> Lower(Trim(input)[i])]
  IN StripRight(StripLeft(ReplaceRuns(lowered, FALSE)))

Basename(s) == <<"a">>

\* sha1(sourcePath) cut to 6 hex digits; SrcA and SrcB collide
ShortHash(s) == "h1"

ProjectSlug(s) ==
  <<IF Slugify(Basename(s)) = <<>> THEN <<"project">> ELSE Slugify(Basename(s)),
    ShortHash(s)>>

HasGitRepo(srcState) == srcState.git

\* ------------------------------------------------------- variations.ts
GetProjectRoot(s) == ProjectSlug(s)

\* join(root, slug); the caller fails when the slug is empty
GetVariationPath(s, name) == <<GetProjectRoot(s), Slugify(name)>>

NoPath == <<>>

\* the names given on the command line
Names == {<<"a">>, <<"A">>, <<"!">>}

VarPaths == {GetVariationPath(s, n) : s \in Sources, n \in {m \in Names : Slugify(m) # <<>>}}

\* ------------------------------------------------------------ the state
VARIABLES
  src,        \* source directory |-> its working tree and its repository
  vdir,       \* variation path |-> the variation directory
  registry,   \* variation path |-> the meta file of the registry
  proc,       \* process |-> the locals and the position of a cowl invocation
  pre,        \* process |-> the file system when the invocation started
  ops         \* invocations started and edits made so far

vars == <<src, vdir, registry, proc, pre, ops>>

fs == [src |-> src, vdir |-> vdir, registry |-> registry]

\* origin is the tree the directory was cloned from (a history field)
NoDir == [exists |-> FALSE, files |-> EmptyTree, index |-> {}, origin |-> EmptyTree]
NoMeta ==
  [present |-> FALSE, name |-> <<>>, sourcePath |-> "", variationPath |-> NoPath,
   hasBase |-> FALSE, gitBase |-> EmptyTree]

\* the branches a source can have: main, the branch of --branch for the
\* variation a, and the branch of --branch=x
BranchNames == {<<"main">>, <<"cowl/", "a">>, <<"x">>}
NoTips == [b \in BranchNames |-> EmptyTree]

\* head is the tree of the commit HEAD points to, tips the tree of the tip of
\* every branch in refs/heads
PlainDir(files) ==
  [files |-> files, git |-> FALSE, hasHead |-> FALSE, head |-> EmptyTree,
   branches |-> {}, branch |-> <<>>, tips |-> NoTips]

\* a repository root with one commit on main; the index holds the committed paths
RepoDir(files, head) ==
  [files |-> files, git |-> TRUE, hasHead |-> TRUE, head |-> head,
   branches |-> {<<"main">>}, branch |-> <<"main">>,
   tips |-> [NoTips EXCEPT ![<<"main">>] = head]]

\* the same repository with a second branch that has a commit of its own
RepoWithBranch(files, head, name, tip) ==
  [RepoDir(files, head) EXCEPT !.branches = @ \cup {name}, !.tips[name] = tip]

Undefined == [defined |-> FALSE, value |-> <<>>]
Option(value) == [defined |-> TRUE, value |-> value]

IdleProc ==
  [cmd |-> "none", pc |-> "idle", cwd |-> <<>>, argv |-> <<>>, sourcePath |-> "",
   name |-> <<>>,
   flags |-> {}, branchOpt |-> Undefined,
   variationPath |-> NoPath, wantsBranch |-> FALSE, branchName |-> <<>>,
   meta |-> NoMeta, strategy |-> "none", diff |-> {}, files |-> {},
   steps |-> <<>>, exit |-> -1]

NoSnapshot == [src |-> [s \in Sources |-> PlainDir(EmptyTree)],
               vdir |-> [v \in VarPaths |-> NoDir],
               registry |-> [v \in VarPaths |-> NoMeta]]

AllIdle == \A p \in Procs : proc[p].pc = "idle"

Init ==
  /\ \E files \in {t \in [Paths -> {Absent, "c0"}] : t["f1"] = "c0"},
        repo \in {"none", "main", "branched"} :
       src = [s \in Sources |->
                IF s = SrcA
                THEN CASE repo = "none" -> PlainDir(files)
                       [] repo = "main" -> RepoDir(files, files)
                       [] repo = "branched" ->
                            RepoWithBranch(files, files, <<"cowl/", "a">>,
                                           [files EXCEPT !["f1"] = "c1"])
                ELSE PlainDir([f \in Paths |-> "c0"])]
  /\ vdir = [v \in VarPaths |-> NoDir]
  /\ registry = [v \in VarPaths |-> NoMeta]
  /\ proc = [p \in Procs |-> IdleProc]
  /\ pre = [p \in Procs |-> NoSnapshot]
  /\ ops = 0

\* ----------------------------------------------------------- the process
\* faulty variant, for comparison: fail reports the error and returns, and the command goes on
FailNoExit(p, step) ==
  proc' = [proc EXCEPT ![p].pc = "cleanup", ![p].exit = 1,
                       ![p].steps = Append(@, step)]

\* fail(message): console.error, process.exit(1)
Fail(p, step) ==
  proc' = [proc EXCEPT ![p].pc = "done", ![p].exit = 1,
                       ![p].steps = Append(@, step)]

Goto(p, next, step) ==
  proc' = [proc EXCEPT ![p].pc = next, ![p].steps = Append(@, step)]

Finish(p, step) ==
  proc' = [proc EXCEPT ![p].pc = "done", ![p].exit = 0,
                       ![p].steps = Append(@, step)]

\* the process has ended; the next invocation is a new process
Exit(p) ==
  /\ proc[p].pc = "done"
  /\ proc' = [proc EXCEPT ![p] = IdleProc]
  /\ pre' = [pre EXCEPT ![p] = NoSnapshot]
  /\ UNCHANGED <<src, vdir, registry, ops>>

\* ------------------------------------------------------------- meta.ts
ReadMeta(variationPath) == registry[variationPath]

\* a working directory is the path of its components: a source directory is
\* one component, a variation directory is its variation path, and a
\* directory inside a variation has the components below it appended
SourceDir(s) == <<s>>
Inside(v) == v \o <<<<"d">>>>
CwdString(cwd) == IF Len(cwd) = 1 THEN cwd[1] ELSE "/cowl/a-h1/a"

\* cwd.startsWith(variationPath + "/")
StartsWithDir(cwd, variationPath) ==
  Len(cwd) > Len(variationPath) /\ SubSeq(cwd, 1, Len(variationPath)) = variationPath

\* faulty variant, for comparison: the working directory is not compared
FindVariationAny(cwd) ==
  LET found == {v \in VarPaths : ReadMeta(v).present}
  IN IF found = {} THEN NoMeta ELSE ReadMeta(CHOOSE v \in found : TRUE)

\* findVariationByPath: the first meta file whose variationPath is cwd or a
\* directory above cwd, null when there is none
FindVariationByPath(cwd) ==
  LET found == {v \in VarPaths :
                  /\ ReadMeta(v).present
                  /\ \/ Len(cwd) = Len(ReadMeta(v).variationPath)
                        /\ cwd = ReadMeta(v).variationPath
                     \/ StartsWithDir(cwd, ReadMeta(v).variationPath)}
  IN IF found = {} THEN NoMeta ELSE ReadMeta(CHOOSE v \in found : TRUE)

\* detectVariationContext
DetectVariationContext(cwd) ==
  LET variationInfo == FindVariationByPath(cwd)
  IN IF variationInfo.present
     THEN [inVariation |-> TRUE, sourcePath |-> variationInfo.sourcePath]
     ELSE [inVariation |-> FALSE, sourcePath |-> CwdString(cwd)]

\* ----------------------------------------------------------- parseArgs
\* An argument is a sequence of pieces: "--" when it starts with two dashes,
\* then the key as one piece, then "=" and the characters of the value when
\* the value is given inline; any other argument is the sequence of its
\* characters, and <<>> is the empty string.
Dashed(arg) == arg # <<>> /\ arg[1] = "--"

\* key.indexOf(c), 0 when c is not in the key
IndexOf(key, c) ==
  IF \E i \in 1..Len(key) : key[i] = c
  THEN CHOOSE i \in 1..Len(key) : key[i] = c /\ \A j \in 1..(i - 1) : key[j] # c
  ELSE 0

\* the key as a string
KeyName(key) == IF key = <<>> THEN "" ELSE key[1]

ValueOptions == {"shell", "rc", "branch"}

\* options[key] = value
SetOption(options, key, value) ==
  {o \in options : o.key # key} \cup {[key |-> key, value |-> value]}

\* options.key
GetOption(options, key) ==
  IF \E o \in options : o.key = key
  THEN Option((CHOOSE o \in options : o.key = key).value)
  ELSE Undefined

\* faulty variant, for comparison: an argument that starts with -- is taken as a value
NoValueAtEndOnly(next) == next = <<>>

\* !next || next.startsWith("--"), next being <<>> also when there is no next argument
NoValue(next) == next = <<>> \/ Dashed(next)

NoArgs == [ok |-> TRUE, flags |-> {}, options |-> {}, positionals |-> <<>>]

RECURSIVE ParseFrom(_, _, _)
\* the loop of parseArgs from args[i] on; ok is FALSE after fail("Missing value")
ParseFrom(args, i, acc) ==
  IF i > Len(args) THEN acc
  ELSE IF ~Dashed(args[i])
  THEN ParseFrom(args, i + 1, [acc EXCEPT !.positionals = Append(@, args[i])])
  ELSE LET key == Tail(args[i])
           inlineIndex == IndexOf(key, "=")
           next == IF i + 1 <= Len(args) THEN args[i + 1] ELSE <<>>
       IN IF inlineIndex # 0
          THEN ParseFrom(args, i + 1,
                 [acc EXCEPT !.options =
                    SetOption(@, KeyName(SubSeq(key, 1, inlineIndex - 1)),
                              SubSeq(key, inlineIndex + 1, Len(key)))])
          ELSE IF KeyName(key) \in ValueOptions
          THEN IF NoValue(next)
               THEN IF KeyName(key) = "branch"
                    THEN ParseFrom(args, i + 1, [acc EXCEPT !.flags = @ \cup {"branch"}])
                    ELSE [acc EXCEPT !.ok = FALSE]
               ELSE ParseFrom(args, i + 2,
                      [acc EXCEPT !.options = SetOption(@, KeyName(key), next)])
          ELSE ParseFrom(args, i + 1, [acc EXCEPT !.flags = @ \cup {KeyName(key)}])

ParseArgs(args) == ParseFrom(args, 1, NoArgs)

\* main: one invocation of cowl <cmd> <args> from the working directory cwd:
\* parseArgs, then the command's checks of the name and of the variation directory
Begin(p, cmd, cwd, argv, mustExist, next) ==
  /\ proc[p].pc = "idle"
  /\ ops < MaxOps
  /\ ops' = ops + 1
  /\ pre' = [pre EXCEPT ![p] = fs]
  /\ LET parsed == ParseArgs(argv)
         positionals == parsed.positionals
         name == IF positionals = <<>> THEN <<>> ELSE positionals[1]
         s == DetectVariationContext(cwd).sourcePath
         started == [IdleProc EXCEPT !.cmd = cmd, !.cwd = cwd, !.argv = argv,
                                     !.sourcePath = s, !.name = name,
                                     !.flags = parsed.flags,
                                     !.branchOpt = GetOption(parsed.options, "branch")]
         failed(step) == [started EXCEPT !.pc = "done", !.exit = 1, !.steps = <<step>>]
     IN IF ~parsed.ok
        THEN proc' = [proc EXCEPT ![p] = failed("missing-value")]
        ELSE IF name = <<>>
        THEN proc' = [proc EXCEPT ![p] = failed("name-required")]
        ELSE IF Slugify(name) = <<>>
        THEN proc' = [proc EXCEPT ![p] = failed("empty-path")]
        ELSE IF vdir[GetVariationPath(s, name)].exists # mustExist
        THEN proc' = [proc EXCEPT ![p] =
                        [failed("exists") EXCEPT
                           !.variationPath = GetVariationPath(s, name)]]
        ELSE proc' = [proc EXCEPT ![p] =
                        [started EXCEPT !.variationPath = GetVariationPath(s, name),
                                        !.pc = next, !.steps = <<"exists">>]]
  /\ UNCHANGED <<src, vdir, registry>>

\* ---------------------------------------------------------- cmdNew
\* faulty variant, for comparison: existsSync(variationPath) is not looked at
NewBeginNoCheck(p, cwd, argv) ==
  Begin(p, "new", cwd, argv,
        vdir[GetVariationPath(DetectVariationContext(cwd).sourcePath,
                              ParseArgs(argv).positionals[1])].exists,
        "copy")

\* cmdNew up to existsSync(variationPath)
NewBegin(p, cwd, argv) ==
  Begin(p, "new", cwd, argv, FALSE, "copy")

\* what cp leaves behind when it fails: nothing, or a part of the tree
Partial(files) ==
  {t \in [Paths -> Contents \cup {Absent, ConflictMarked}] :
     \A f \in Paths : t[f] \in {Absent, files[f]}}

Clone(srcState) ==
  [exists |-> TRUE, files |-> srcState.files,
   index |-> IF srcState.git /\ srcState.hasHead THEN Present(srcState.head) ELSE {},
   origin |-> srcState.files]

\* what a cp that failed leaves at the destination
Leftover(srcState, t) ==
  IF t = EmptyTree THEN NoDir
  ELSE [exists |-> TRUE, files |-> t, index |-> {}, origin |-> srcState.files]

\* cowCopyDir up to the copy-on-write attempt: existsSync(destPath), cp --reflink
CowCopyDir(p) ==
  /\ proc[p].cmd = "new" /\ proc[p].pc = "copy"
  /\ LET v == proc[p].variationPath
         s == src[proc[p].sourcePath]
     IN IF vdir[v].exists
        THEN /\ Fail(p, "dest-exists")
             /\ UNCHANGED vdir
        ELSE \E cow \in BOOLEAN :
               IF cow
               THEN /\ vdir' = [vdir EXCEPT ![v] = Clone(s)]
                    /\ Goto(p, "meta", "cow")
               ELSE /\ \E t \in Partial(s.files) :
                         vdir' = [vdir EXCEPT ![v] = Leftover(s, t)]
                    /\ Goto(p, "fallback", "cow-failed")
  /\ UNCHANGED <<src, registry, pre, ops>>

\* faulty variant, for comparison: what the first attempt left is not removed,
\* and cp -a copies into the directory that is there
CopyFallbackKeepsLeftover(p) ==
  /\ proc[p].cmd = "new" /\ proc[p].pc = "fallback"
  /\ LET v == proc[p].variationPath
         s == src[proc[p].sourcePath]
     IN /\ vdir' = [vdir EXCEPT ![v] = IF vdir[v].exists THEN vdir[v] ELSE Clone(s)]
        /\ Goto(p, "meta", "fallback")
  /\ UNCHANGED <<src, registry, pre, ops>>

\* cowCopyDir after a failed copy-on-write attempt: rmSync(destPath), cp -a, fail
CopyFallback(p) ==
  /\ proc[p].cmd = "new" /\ proc[p].pc = "fallback"
  /\ LET v == proc[p].variationPath
         s == src[proc[p].sourcePath]
     IN \E fallback \in BOOLEAN :
          IF fallback
          THEN /\ vdir' = [vdir EXCEPT ![v] = Clone(s)]
               /\ Goto(p, "meta", "fallback")
          ELSE /\ \E t \in Partial(s.files) :
                    vdir' = [vdir EXCEPT ![v] = Leftover(s, t)]
               /\ Fail(p, "copy-failed")
  /\ UNCHANGED <<src, registry, pre, ops>>

\* getGitBase: git rev-parse HEAD of the source, null when it fails
GetGitBase(srcState, revParseOk) ==
  IF HasGitRepo(srcState) /\ srcState.hasHead /\ revParseOk
  THEN [hasBase |-> TRUE, gitBase |-> srcState.head]
  ELSE [hasBase |-> FALSE, gitBase |-> EmptyTree]

\* writeMeta of cmdNew
NewMeta(p) ==
  /\ proc[p].cmd = "new" /\ proc[p].pc = "meta"
  /\ \E revParseOk \in BOOLEAN :
       LET v == proc[p].variationPath
           base == GetGitBase(src[proc[p].sourcePath], revParseOk)
       IN registry' = [registry EXCEPT ![v] =
                         [present |-> TRUE, name |-> Slugify(proc[p].name),
                          sourcePath |-> proc[p].sourcePath, variationPath |-> v,
                          hasBase |-> base.hasBase, gitBase |-> base.gitBase]]
  /\ Finish(p, "meta")
  /\ UNCHANGED <<src, vdir, pre, ops>>

\* ---------------------------------------------------------- cmdClean
\* cmdClean up to existsSync(variationPath)
CleanBegin(p, cwd, argv) ==
  Begin(p, "clean", cwd, argv, TRUE, "rm")

\* rmSync(variationPath, {recursive: true, force: false}); it throws when the
\* directory is gone or cannot be removed
RmVariation(p) ==
  /\ proc[p].cmd = "clean" /\ proc[p].pc = "rm"
  /\ LET v == proc[p].variationPath
     IN \E ok \in BOOLEAN :
          IF ok /\ vdir[v].exists
          THEN /\ vdir' = [vdir EXCEPT ![v] = NoDir]
               /\ Goto(p, "delmeta", "rm")
          ELSE /\ Fail(p, "rm-failed")
               /\ UNCHANGED vdir
  /\ UNCHANGED <<src, registry, pre, ops>>

\* deleteMeta
DeleteMeta(p) ==
  /\ proc[p].cmd \in {"clean", "merge"} /\ proc[p].pc = "delmeta"
  /\ registry' = [registry EXCEPT ![proc[p].variationPath] = NoMeta]
  /\ Finish(p, "delmeta")
  /\ UNCHANGED <<src, vdir, pre, ops>>

\* ------------------------------------------------------------ git
\* git -C variationPath diff --binary baseCommit: the tracked paths whose working
\* file differs from the base commit, each with its blob before and after
GitDiff(variation, baseCommit) ==
  {[path |-> f, before |-> baseCommit[f], after |-> variation.files[f]] :
     f \in {g \in variation.index \cup Present(baseCommit) :
              variation.files[g] # baseCommit[g]}}

\* three-way merge of one file: it applies where the source still has the blob
\* the patch was made from, or already has the patched content
Merges(ours, d) == ours = d.before \/ ours = d.after

\* faulty variant, for comparison: the patch is applied in reverse
Merged3Reversed(ours, d) ==
  IF ours = d.after THEN d.before
  ELSE IF ours = d.before THEN ours
  ELSE ConflictMarked

Merged3(ours, d) ==
  IF ours = d.before THEN d.after
  ELSE IF ours = d.after THEN ours
  ELSE ConflictMarked

\* git apply --3way: the working tree after the patch
ApplyPatch(files, diff) ==
  [f \in Paths |->
     IF \E d \in diff : d.path = f
     THEN Merged3(files[f], CHOOSE d \in diff : d.path = f)
     ELSE files[f]]

PatchApplies(files, diff) == \A d \in diff : Merges(files[d.path], d)

\* git ls-files --others --exclude-standard
LsFilesOthers(variation) == Present(variation.files) \ variation.index

\* git show-ref --verify refs/heads/branchName
BranchExists(srcState, branchName) == branchName \in srcState.branches

\* git checkout of an existing branch refuses to overwrite a file that differs
\* between the two commits and is not as committed in the working tree;
\* git checkout -b keeps the working tree
CanCheckout(srcState, branchName) ==
  BranchExists(srcState, branchName) =>
    \A f \in Paths :
      srcState.tips[branchName][f] = srcState.head[f]
        \/ srcState.files[f] = srcState.head[f]

\* faulty variant, for comparison: git checkout -B, an existing branch is made anew
EnsureBranchReset(srcState, branchName) ==
  [srcState EXCEPT !.branches = @ \cup {branchName}, !.branch = branchName,
                   !.tips[branchName] = srcState.head]

\* ensureBranch: git checkout branchName, or git checkout -b when it is new
EnsureBranch(srcState, branchName) ==
  IF BranchExists(srcState, branchName)
  THEN [srcState EXCEPT
          !.branch = branchName,
          !.head = srcState.tips[branchName],
          !.files = [f \in Paths |->
                       IF srcState.tips[branchName][f] = srcState.head[f]
                       THEN srcState.files[f]
                       ELSE srcState.tips[branchName][f]]]
  ELSE [srcState EXCEPT !.branches = @ \cup {branchName}, !.branch = branchName,
                        !.tips[branchName] = srcState.head]

\* faulty variant, for comparison: the branch is made by git branch before a checkout that fails
CheckoutFailedBranchMade(srcState, branchName) ==
  [srcState EXCEPT !.branches = @ \cup {branchName}]

\* a checkout that fails changes nothing
CheckoutFailed(srcState, branchName) == srcState

\* ------------------------------------------------------------ rsync
\* ensureRsync: commandExists("rsync") runs rsync --version at every call
EnsureRsync(rsyncInstalled) == rsyncInstalled

\* faulty variant, for comparison: the list is not passed, the whole tree is copied
CopyWholeTree(files, variationFiles, list) ==
  [f \in Paths |-> IF variationFiles[f] # Absent THEN variationFiles[f] ELSE files[f]]

\* rsync -a --files-from=list variationPath/ sourcePath/
CopyFileList(files, variationFiles, list) ==
  [f \in Paths |-> IF f \in list THEN variationFiles[f] ELSE files[f]]

\* faulty variant, for comparison: --delete is always passed
MirrorAlwaysDelete(files, variationFiles, allowDelete) ==
  [f \in Paths |-> variationFiles[f]]

\* faulty variant, for comparison: --delete is never passed
MirrorNeverDelete(files, variationFiles, allowDelete) ==
  [f \in Paths |-> IF variationFiles[f] # Absent THEN variationFiles[f] ELSE files[f]]

\* faulty variant, for comparison: --ignore-existing, only new files are copied
MirrorIgnoreExisting(files, variationFiles, allowDelete) ==
  [f \in Paths |->
     IF files[f] = Absent THEN variationFiles[f]
     ELSE IF variationFiles[f] = Absent /\ allowDelete THEN Absent
     ELSE files[f]]

\* rsync -a [--delete] variationPath/ sourcePath/
Mirror(files, variationFiles, allowDelete) ==
  [f \in Paths |->
     IF variationFiles[f] # Absent THEN variationFiles[f]
     ELSE IF allowDelete THEN Absent
     ELSE files[f]]

\* an rsync that stopped half way: some paths are as before, the others done
Interrupted(before, after) ==
  {t \in [Paths -> Contents \cup {Absent, ConflictMarked}] :
     \A f \in Paths : t[f] \in {before[f], after[f]}}

\* ---------------------------------------------------------- cmdMerge
\* faulty variant, for comparison: the flag is looked up under another name
DryRunIgnored(p) == "dryrun" \in proc[p].flags

DryRun(p) == "dry-run" \in proc[p].flags
Keep(p) == "keep" \in proc[p].flags
AllowDelete(p) == "delete" \in proc[p].flags

\* cmdMerge up to existsSync(variationPath)
MergeBegin(p, cwd, argv) ==
  Begin(p, "merge", cwd, argv, TRUE, "select")

\* faulty variant, for comparison: the option is taken as it was typed
BranchOptionUntrimmed(p) == proc[p].branchOpt.value

\* options.branch?.trim()
BranchOption(p) == Trim(proc[p].branchOpt.value)

\* faulty variant, for comparison: a branch given by name is not taken as a wish for a branch
WantsBranchFlagOnly(p) == "branch" \in proc[p].flags

WantsBranch(p) ==
  "branch" \in proc[p].flags \/ (proc[p].branchOpt.defined /\ BranchOption(p) # <<>>)

\* faulty variant, for comparison: the default branch is the bare name
BranchNameNoPrefix(p, meta) ==
  IF ~WantsBranch(p) THEN <<>>
  ELSE IF proc[p].branchOpt.defined THEN BranchOption(p)
  ELSE IF meta.present THEN meta.name ELSE Slugify(proc[p].name)

BranchName(p, meta) ==
  IF ~WantsBranch(p) THEN <<>>
  ELSE IF proc[p].branchOpt.defined THEN BranchOption(p)
  ELSE <<"cowl/">> \o (IF meta.present THEN meta.name ELSE Slugify(proc[p].name))

\* faulty variant, for comparison: the source is not looked at
UsesGitBaseOnly(meta, srcState) == meta.hasBase

\* faulty variant, for comparison: the base recorded in the meta is not looked at
UsesGitRepoOnly(meta, srcState) == HasGitRepo(srcState)

\* the strategy of the merge: git when the meta has a base and the source is a
\* repository root, rsync otherwise
UsesGit(meta, srcState) == meta.hasBase /\ HasGitRepo(srcState)

\* faulty variant, for comparison: the source of the meta is never compared
OtherSourceNever(meta, sourcePath) == FALSE

\* faulty variant, for comparison: a variation without a meta is rejected too
OtherSourceOrMissing(meta, sourcePath) ==
  ~meta.present \/ meta.sourcePath # sourcePath

\* the variation was created from another source directory
OtherSource(meta, sourcePath) == meta.present /\ meta.sourcePath # sourcePath

\* faulty variant, for comparison: a merge waits at the checks while another
\* merge of the variation is between its checks and its end
MergeSelectLocked(p) ==
  /\ proc[p].cmd = "merge" /\ proc[p].pc = "select"
  /\ \A q \in Procs \ {p} :
       ~(proc[q].cmd = "merge" /\ proc[q].variationPath = proc[p].variationPath
           /\ proc[q].pc \notin {"idle", "select", "done"})
  /\ LET meta == ReadMeta(proc[p].variationPath)
         chosen(strategy, next) ==
           [proc EXCEPT ![p].meta = meta, ![p].wantsBranch = WantsBranch(p),
                        ![p].branchName = BranchName(p, meta),
                        ![p].strategy = strategy, ![p].pc = next,
                        ![p].steps = Append(@, "select")]
         failed(step) ==
           [proc EXCEPT ![p].meta = meta, ![p].pc = "done", ![p].exit = 1,
                        ![p].steps = Append(@, step)]
     IN IF OtherSource(meta, proc[p].sourcePath)
        THEN proc' = failed("other-source")
        ELSE IF proc[p].branchOpt.defined /\ BranchOption(p) = <<>>
        THEN proc' = failed("empty-branch")
        ELSE IF UsesGit(meta, src[proc[p].sourcePath])
        THEN proc' = chosen("git", "branch")
        ELSE IF WantsBranch(p)
        THEN proc' = [chosen("rsync", "done") EXCEPT
                        ![p].exit = 1, ![p].steps = Append(proc[p].steps, "branch-needs-git")]
        ELSE proc' = chosen("rsync", "rsync")
  /\ UNCHANGED <<src, vdir, registry, pre, ops>>

\* cmdMerge from readMeta to the choice of the reconciler
MergeSelect(p) ==
  /\ proc[p].cmd = "merge" /\ proc[p].pc = "select"
  /\ LET meta == ReadMeta(proc[p].variationPath)
         chosen(strategy, next) ==
           [proc EXCEPT ![p].meta = meta, ![p].wantsBranch = WantsBranch(p),
                        ![p].branchName = BranchName(p, meta),
                        ![p].strategy = strategy, ![p].pc = next,
                        ![p].steps = Append(@, "select")]
         failed(step) ==
           [proc EXCEPT ![p].meta = meta, ![p].pc = "done", ![p].exit = 1,
                        ![p].steps = Append(@, step)]
     IN IF OtherSource(meta, proc[p].sourcePath)
        THEN proc' = failed("other-source")
        ELSE IF proc[p].branchOpt.defined /\ BranchOption(p) = <<>>
        THEN proc' = failed("empty-branch")
        ELSE IF UsesGit(meta, src[proc[p].sourcePath])
        THEN proc' = chosen("git", "branch")
        ELSE IF WantsBranch(p)
        THEN proc' = [chosen("rsync", "done") EXCEPT
                        ![p].exit = 1, ![p].steps = Append(proc[p].steps, "branch-needs-git")]
        ELSE proc' = chosen("rsync", "rsync")
  /\ UNCHANGED <<src, vdir, registry, pre, ops>>

\* faulty variant, for comparison: the branch is switched in a dry run too
SwitchesBranchInDryRun(p) == proc[p].wantsBranch

\* mergeWithGit: ensureBranch unless no branch is wanted or it is a dry run
SwitchesBranch(p) == proc[p].wantsBranch /\ ~DryRun(p)

\* faulty variant, for comparison: the status of the checkout is not looked at
GitBranchIgnoresStatus(p) ==
  /\ proc[p].cmd = "merge" /\ proc[p].pc = "branch"
  /\ Goto(p, "diff", IF SwitchesBranch(p) THEN "checkout-failed" ELSE "no-checkout")
  /\ UNCHANGED <<src, vdir, registry, pre, ops>>

GitBranch(p) ==
  /\ proc[p].cmd = "merge" /\ proc[p].pc = "branch"
  /\ LET s == proc[p].sourcePath
     IN IF SwitchesBranch(p)
        THEN \E ok \in BOOLEAN :
               IF ok /\ CanCheckout(src[s], proc[p].branchName)
               THEN /\ src' = [src EXCEPT ![s] = EnsureBranch(@, proc[p].branchName)]
                    /\ Goto(p, "diff", "checkout")
               ELSE /\ Fail(p, "checkout-failed")
                    /\ src' = [src EXCEPT ![s] = CheckoutFailed(@, proc[p].branchName)]
        ELSE /\ Goto(p, "diff", "no-checkout")
             /\ UNCHANGED src
  /\ UNCHANGED <<vdir, registry, pre, ops>>

\* faulty variant, for comparison: a diff that failed is taken as an empty diff
GitDiffIgnoresStatus(p) ==
  /\ proc[p].cmd = "merge" /\ proc[p].pc = "diff"
  /\ proc' = [proc EXCEPT ![p].diff = {}, ![p].pc = "apply",
                          ![p].steps = Append(@, "diff-failed")]
  /\ UNCHANGED <<src, vdir, registry, pre, ops>>

\* mergeWithGit: git diff
GitDiffStep(p) ==
  /\ proc[p].cmd = "merge" /\ proc[p].pc = "diff"
  /\ LET v == proc[p].variationPath
     IN \E ok \in BOOLEAN :
          IF ok /\ vdir[v].exists
          THEN proc' = [proc EXCEPT ![p].diff = GitDiff(vdir[v], proc[p].meta.gitBase),
                                    ![p].pc = "apply",
                                    ![p].steps = Append(@, "diff")]
          ELSE Fail(p, "diff-failed")
  /\ UNCHANGED <<src, vdir, registry, pre, ops>>

\* mergeWithGit: git apply --3way, with --check in a dry run
GitApply(p) ==
  /\ proc[p].cmd = "merge" /\ proc[p].pc = "apply"
  /\ LET s == proc[p].sourcePath
         diff == proc[p].diff
     IN IF diff = {}
        THEN /\ Goto(p, "lsfiles", "no-apply")
             /\ UNCHANGED src
        ELSE \E ok \in BOOLEAN :
               IF ok /\ PatchApplies(src[s].files, diff)
               THEN /\ src' = [src EXCEPT ![s].files =
                                 IF DryRun(p) THEN @ ELSE ApplyPatch(@, diff)]
                    /\ Goto(p, "lsfiles", IF DryRun(p) THEN "apply-check" ELSE "apply")
               ELSE /\ Fail(p, "apply-failed")
                    \* a patch that does not apply leaves the tree alone, or leaves
                    \* the merged files and the conflict markers in it
                    /\ \/ UNCHANGED src
                       \/ /\ ~DryRun(p) /\ ~PatchApplies(src[s].files, diff)
                          /\ src' = [src EXCEPT ![s].files = ApplyPatch(@, diff)]
  /\ UNCHANGED <<vdir, registry, pre, ops>>

\* mergeWithGit: git ls-files --others
GitLsFiles(p) ==
  /\ proc[p].cmd = "merge" /\ proc[p].pc = "lsfiles"
  /\ LET v == proc[p].variationPath
     IN \E ok \in BOOLEAN :
          IF ok /\ vdir[v].exists
          THEN proc' = [proc EXCEPT ![p].files = LsFilesOthers(vdir[v]),
                                    ![p].pc = "copy",
                                    ![p].steps = Append(@, "lsfiles")]
          ELSE Fail(p, "lsfiles-failed")
  /\ UNCHANGED <<src, vdir, registry, pre, ops>>

\* mergeWithGit: copyUntrackedWithRsync unless it is a dry run
\* faulty variant, for comparison: rsync is looked for in a dry run too
CopyUntrackedChecksInDryRun(p) ==
  /\ proc[p].cmd = "merge" /\ proc[p].pc = "copy"
  /\ \E rsyncInstalled \in BOOLEAN :
       IF ~EnsureRsync(rsyncInstalled)
       THEN Fail(p, "copy-rsync-missing")
       ELSE Goto(p, "cleanup", IF DryRun(p) THEN "no-copy" ELSE "copy-nothing")
  /\ UNCHANGED <<src, vdir, registry, pre, ops>>

\* copyUntrackedWithRsync, called by mergeWithGit unless --dry-run
CopyUntracked(p) ==
  /\ proc[p].cmd = "merge" /\ proc[p].pc = "copy"
  /\ LET s == proc[p].sourcePath
         v == proc[p].variationPath
         after == CopyFileList(src[s].files, vdir[v].files, proc[p].files)
     IN IF DryRun(p)
        THEN /\ Goto(p, "cleanup", "no-copy")
             /\ UNCHANGED src
        ELSE \E rsyncInstalled \in BOOLEAN, ok \in BOOLEAN :
               IF ~EnsureRsync(rsyncInstalled)
               THEN /\ Fail(p, "copy-rsync-missing")
                    /\ UNCHANGED src
               ELSE IF proc[p].files = {}
               THEN /\ Goto(p, "cleanup", "copy-nothing")
                    /\ UNCHANGED src
               ELSE IF ok /\ vdir[v].exists
               THEN /\ src' = [src EXCEPT ![s].files = after]
                    /\ Goto(p, "cleanup", "copy")
               ELSE /\ Fail(p, "copy-failed")
                    /\ \E t \in Interrupted(src[s].files, after) \ {after} :
                         src' = [src EXCEPT ![s].files = t]
  /\ UNCHANGED <<vdir, registry, pre, ops>>

\* mergeWithRsync
RsyncMerge(p) ==
  /\ proc[p].cmd = "merge" /\ proc[p].pc = "rsync"
  /\ LET s == proc[p].sourcePath
         v == proc[p].variationPath
         after == Mirror(src[s].files, vdir[v].files, AllowDelete(p))
     IN \E rsyncInstalled \in BOOLEAN, ok \in BOOLEAN :
               IF ~EnsureRsync(rsyncInstalled)
               THEN /\ Fail(p, "rsync-missing")
                    /\ UNCHANGED src
               ELSE IF ok /\ vdir[v].exists
               THEN /\ src' = [src EXCEPT ![s].files = IF DryRun(p) THEN @ ELSE after]
                    /\ Goto(p, "cleanup", IF DryRun(p) THEN "rsync-dry-run" ELSE "rsync")
               ELSE /\ Fail(p, "rsync-failed")
                    /\ IF DryRun(p) \/ ~vdir[v].exists
                       THEN UNCHANGED src
                       ELSE \E t \in Interrupted(src[s].files, after) :
                              src' = [src EXCEPT ![s].files = t]
  /\ UNCHANGED <<vdir, registry, pre, ops>>

\* faulty variant, for comparison: --keep is not honoured
CleansDespiteKeep(p) == ~DryRun(p)

\* cmdMerge: the cleanup, rmSync(variationPath) first
Cleans(p) == ~DryRun(p) /\ ~Keep(p)

\* faulty variant, for comparison: a merge that keeps the variation records
\* the commit the source is on as the new base
MergeCleanupRebases(p) ==
  /\ proc[p].cmd = "merge" /\ proc[p].pc = "cleanup"
  /\ LET v == proc[p].variationPath
         s == src[proc[p].sourcePath]
     IN IF Cleans(p)
        THEN /\ vdir' = [vdir EXCEPT ![v] = NoDir]
             /\ Goto(p, "delmeta", "rm")
             /\ UNCHANGED registry
        ELSE /\ Finish(p, "no-cleanup")
             /\ registry' = [registry EXCEPT ![v].hasBase = @ \/ s.git,
                                             ![v].gitBase = IF s.git THEN s.head ELSE @]
             /\ UNCHANGED vdir
  /\ UNCHANGED <<src, pre, ops>>

\* faulty variant, for comparison: the registry entry is removed first and the
\* directory is left
MergeCleanupMetaFirst(p) ==
  /\ proc[p].cmd = "merge" /\ proc[p].pc = "cleanup"
  /\ IF Cleans(p)
     THEN /\ registry' = [registry EXCEPT ![proc[p].variationPath] = NoMeta]
          /\ Goto(p, "delmeta", "delmeta")
     ELSE /\ Finish(p, "no-cleanup")
          /\ UNCHANGED registry
  /\ UNCHANGED <<src, vdir, pre, ops>>

MergeCleanup(p) ==
  /\ proc[p].cmd = "merge" /\ proc[p].pc = "cleanup"
  /\ LET v == proc[p].variationPath
     IN IF Cleans(p)
        THEN \E ok \in BOOLEAN :
               IF ok /\ vdir[v].exists
               THEN /\ vdir' = [vdir EXCEPT ![v] = NoDir]
                    /\ Goto(p, "delmeta", "rm")
               ELSE /\ Fail(p, "rm-failed")
                    /\ UNCHANGED vdir
        ELSE /\ Finish(p, "no-cleanup")
             /\ UNCHANGED vdir
  /\ UNCHANGED <<src, registry, pre, ops>>

\* ------------------------------------------------------------ the user
EditVariation ==
  /\ AllIdle
  /\ ops < MaxOps
  /\ \E v \in VarPaths, f \in Paths, c \in Contents \cup {Absent} :
       /\ vdir[v].exists
       /\ vdir[v].files[f] # c
       /\ vdir' = [vdir EXCEPT ![v].files[f] = c]
  /\ ops' = ops + 1
  /\ UNCHANGED <<src, registry, proc, pre>>

EditSource ==
  /\ AllIdle
  /\ ops < MaxOps
  /\ \E f \in Paths, c \in Contents \cup {Absent} :
       /\ src[SrcA].files[f] # c
       /\ src' = [src EXCEPT ![SrcA].files[f] = c]
  /\ ops' = ops + 1
  /\ UNCHANGED <<vdir, registry, proc, pre>>

\* git init, git add, git commit in a source that is no repository
GitInitSource ==
  /\ AllIdle
  /\ ops < MaxOps
  /\ ~src[SrcA].git
  /\ src' = [src EXCEPT ![SrcA] = RepoDir(@.files, @.files)]
  /\ ops' = ops + 1
  /\ UNCHANGED <<vdir, registry, proc, pre>>

\* rm -rf .git in the source
RemoveGitSource ==
  /\ AllIdle
  /\ ops < MaxOps
  /\ src[SrcA].git
  /\ src' = [src EXCEPT ![SrcA] = PlainDir(@.files)]
  /\ ops' = ops + 1
  /\ UNCHANGED <<vdir, registry, proc, pre>>


\* ------------------------------------------------------- specification
\* the command lines tried: the combinations of --dry-run, --keep and --delete
\* for a good name, --branch and --branch=x with and without --dry-run and
\* --keep, a blank branch name, and the bare command for a missing or an
\* empty name
MergeArgs ==
  {<<<<"a">>>> \o fl :
     fl \in {<<>>, <<<<"--", "dry-run">>>>, <<<<"--", "keep">>>>,
             <<<<"--", "dry-run">>, <<"--", "keep">>>>,
             <<<<"--", "delete">>>>, <<<<"--", "delete">>, <<"--", "dry-run">>>>}}
  \cup {<<<<"a">>, <<"--", "branch">>>> \o fl :
          fl \in {<<>>, <<<<"--", "dry-run">>>>, <<<<"--", "keep">>>>}}
  \cup {<<<<"a">>, <<"--", "branch">>, <<" ", "x">>>> \o fl :
          fl \in {<<>>, <<<<"--", "dry-run">>>>}}
  \cup {<<<<"a">>, <<"--", "branch">>, <<" ">>>>}
  \cup {<<>>, <<<<"!">>>>, <<<<"--", "branch">>, <<"a">>>>}

\* the arguments of a command line
Tokens(argv) == {argv[i] : i \in 1..Len(argv)}

\* the working directories tried: the sources, and a registered variation
\* directory or a directory inside it
Cwds ==
  {SourceDir(s) : s \in Sources}
    \cup UNION {{v, Inside(v)} : v \in {w \in VarPaths : vdir[w].exists /\ registry[w].present}}

Step(p) ==
  \/ \E cwd \in Cwds \ {SourceDir(SrcB)}, argv \in {<<<<"A">>>>, <<<<"!">>>>} :
       NewBegin(p, cwd, argv)
  \/ CowCopyDir(p)
  \/ CopyFallback(p)
  \/ NewMeta(p)
  \/ \E cwd \in Cwds, argv \in {<<>>, <<<<"a">>>>} :
       CleanBegin(p, cwd, argv)
  \/ RmVariation(p)
  \/ DeleteMeta(p)
  \/ \E cwd \in Cwds, argv \in MergeArgs :
       /\ cwd = SourceDir(SrcB) =>
            Tokens(argv) \subseteq {<<"a">>, <<"!">>, <<"--", "branch">>}
       /\ Len(cwd) > 1 =>
            Tokens(argv) \subseteq {<<"a">>, <<"!">>, <<"--", "keep">>} /\ argv # <<>>
       /\ MergeBegin(p, cwd, argv)
  \/ MergeSelect(p)
  \/ GitBranch(p)
  \/ GitDiffStep(p)
  \/ GitApply(p)
  \/ GitLsFiles(p)
  \/ CopyUntracked(p)
  \/ RsyncMerge(p)
  \/ MergeCleanup(p)
  \/ Exit(p)

Next ==
  \/ \E p \in SeqProcs : Step(p)
  \/ EditVariation
  \/ EditSource
  \/ GitInitSource
  \/ RemoveGitSource

Spec == Init /\ [][Next]_vars

\* two invocations at a time on one variation: the commands take no lock,
\* so the steps of one interleave with the steps of the other
StepConc(p) ==
  \/ NewBegin(p, SourceDir(SrcA), <<<<"A">>>>)
  \/ CowCopyDir(p)
  \/ CopyFallback(p)
  \/ NewMeta(p)
  \/ \E argv \in {<<<<"a">>>>, <<<<"a">>, <<"--", "keep">>>>} :
       MergeBegin(p, SourceDir(SrcA), argv)
  \/ MergeSelect(p)
  \/ GitBranch(p)
  \/ GitDiffStep(p)
  \/ GitApply(p)
  \/ GitLsFiles(p)
  \/ CopyUntracked(p)
  \/ RsyncMerge(p)
  \/ MergeCleanup(p)
  \/ DeleteMeta(p)
  \/ Exit(p)

NextConc ==
  \/ \E p \in Procs : StepConc(p)
  \/ EditVariation

SpecConc == Init /\ [][NextConc]_vars

\* parseArgs on every command line of up to MaxArgs arguments: names, the
\* empty string, flags, --branch bare and with an inline value, --shell
ArgTokens ==
  {<<"a">>, <<"x">>, <<>>, <<"--", "branch">>, <<"--", "dry-run">>,
   <<"--", "branch", "=", "x">>, <<"--", "shell">>}

ArgLines == UNION {[1..n -> ArgTokens] : n \in 0..MaxArgs}

NextArgs ==
  \E p \in SeqProcs :
    \/ \E argv \in ArgLines : MergeBegin(p, SourceDir(SrcA), argv)
    \/ Exit(p)

SpecArgs == Init /\ [][NextArgs]_vars

\* ------------------------------------------------------------ properties
Merging(p) == proc[p].cmd = "merge"
Ended(p) == proc[p].pc = "done"
Succeeded(p) == Ended(p) /\ proc[p].exit = 0
Failed(p) == Ended(p) /\ proc[p].exit = 1
Has(p, step) == \E i \in 1..Len(proc[p].steps) : proc[p].steps[i] = step
HasAny(p, steps) == \E i \in 1..Len(proc[p].steps) : proc[p].steps[i] \in steps
LastStep(p) == proc[p].steps[Len(proc[p].steps)]
Flag(p, flag) == flag \in proc[p].flags
BranchRequested(p) == Flag(p, "branch") \/ proc[p].branchOpt.defined

SrcNow(p) == src[proc[p].sourcePath]
SrcBefore(p) == pre[p].src[proc[p].sourcePath]
VarNow(p) == vdir[proc[p].variationPath]
VarBefore(p) == pre[p].vdir[proc[p].variationPath]
MetaNow(p) == registry[proc[p].variationPath]
MetaBefore(p) == pre[p].registry[proc[p].variationPath]
Reached(p) == proc[p].variationPath # NoPath

SameFiles(p) == SrcNow(p).files = SrcBefore(p).files
SameBranch(p) ==
  /\ SrcNow(p).branch = SrcBefore(p).branch
  /\ SrcNow(p).branches = SrcBefore(p).branches
  /\ SrcNow(p).tips = SrcBefore(p).tips
  /\ SrcNow(p).head = SrcBefore(p).head
NothingChanged(p) ==
  src = pre[p].src /\ vdir = pre[p].vdir /\ registry = pre[p].registry

\* the steps of mergeWithGit, of mergeWithRsync, and the ones that failed
RanGit(p) == HasAny(p, {"checkout", "no-checkout", "checkout-failed"})
RanMirror(p) == HasAny(p, {"rsync", "rsync-dry-run", "rsync-failed", "rsync-missing"})
ReconcileFailures ==
  {"diff-failed", "apply-failed", "lsfiles-failed", "copy-failed",
   "copy-rsync-missing", "rsync-failed", "rsync-missing"}
BeforeMutation ==
  {"name-required", "empty-path", "exists", "other-source", "empty-branch",
   "branch-needs-git", "checkout-failed", "diff-failed"}

\* the variation is registered and its tree is the tree it was cloned from
Untouched(p) ==
  /\ Reached(p)
  /\ MetaBefore(p).present
  /\ VarBefore(p).exists
  /\ VarBefore(p).files = VarBefore(p).origin

C2_ExactlyOneReconciler ==
  \A p \in Procs :
    Merging(p) /\ Ended(p) /\ proc[p].strategy # "none" =>
      LET patch == MetaBefore(p).hasBase /\ SrcBefore(p).git
      IN (RanGit(p) <=> patch) /\ (RanMirror(p) <=> ~patch)

\* C2 amended: the patch reconciler is selected if and only if the record has
\* a base revision and the source is a repository root, the mirror otherwise;
\* the selected reconciler is the only one run, and it is run unless the
\* mirror is selected and a branch is requested (then none is run).
C2_StrategySelection ==
  \A p \in Procs :
    Merging(p) /\ proc[p].strategy # "none" =>
      /\ proc[p].strategy = "git" <=> (MetaBefore(p).hasBase /\ SrcBefore(p).git)
      /\ RanGit(p) => proc[p].strategy = "git"
      /\ RanMirror(p) => proc[p].strategy = "rsync"
      /\ Ended(p) /\ proc[p].strategy = "git" => RanGit(p)
      /\ Ended(p) /\ proc[p].strategy = "rsync" =>
           (RanMirror(p) <=> ~BranchRequested(p))

C2_Witness ==
  \E p \in Procs :
    Merging(p) /\ Ended(p) /\ RanMirror(p) /\ MetaBefore(p).hasBase

C4_NoCleanupAfterFailure ==
  \A p \in Procs :
    Merging(p) /\ HasAny(p, ReconcileFailures) =>
      /\ Failed(p)
      /\ ~Has(p, "rm")
      /\ VarNow(p).exists /\ VarNow(p) = VarBefore(p)
      /\ MetaNow(p) = MetaBefore(p)

C4_Witness ==
  \E p \in Procs :
    /\ Merging(p) /\ Has(p, "apply-failed") /\ MetaBefore(p).present
    /\ ~Flag(p, "dry-run") /\ ~Flag(p, "keep")

\* C5: at every step of a merge with --dry-run, whatever its strategy and its
\* outcome, the sources (files, branch, branches), the variation directories
\* and the registry are what they were when the merge started.
C5_DryRunMutatesNothing ==
  \A p \in Procs : Merging(p) /\ Flag(p, "dry-run") => NothingChanged(p)

C5_Witness ==
  \E p \in Procs :
    /\ Merging(p) /\ Succeeded(p) /\ Flag(p, "dry-run")
    /\ Has(p, "apply-check") /\ proc[p].files # {}

\* C6: a patch merge with --dry-run and a branch never creates or checks out
\* a branch and never fails at the checkout; it goes on to the diff, the
\* check-only apply and the enumeration of the untracked files.
C6_DryRunSkipsBranch ==
  \A p \in Procs :
    Merging(p) /\ Flag(p, "dry-run") /\ BranchRequested(p) /\ proc[p].strategy = "git" =>
      /\ SameBranch(p)
      /\ ~HasAny(p, {"checkout", "checkout-failed", "apply", "copy"})
      /\ proc[p].pc # "branch" => Has(p, "no-checkout")
      /\ Failed(p) => LastStep(p) \in {"diff-failed", "apply-failed", "lsfiles-failed"}
      /\ Succeeded(p) =>
           /\ Has(p, "diff")
           /\ Has(p, "apply-check") <=> proc[p].diff # {}
           /\ Has(p, "lsfiles")

C6_Witness ==
  \E p \in Procs :
    /\ Merging(p) /\ Succeeded(p) /\ Flag(p, "dry-run") /\ BranchRequested(p)
    /\ Has(p, "apply-check")
    /\ proc[p].branchName \notin SrcBefore(p).branches

\* C7: a merge with a branch for which the mirror is selected ends with exit
\* code 1 without running the sync; sources, variations and registry are as
\* they were.
C7_BranchNeedsGit ==
  \A p \in Procs :
    Merging(p) /\ BranchRequested(p) =>
      /\ ~RanMirror(p)
      /\ proc[p].strategy = "rsync" => Failed(p) /\ NothingChanged(p)

C7_Witness ==
  \E p \in Procs :
    /\ Merging(p) /\ Failed(p) /\ LastStep(p) = "branch-needs-git"
    /\ VarBefore(p).files # SrcBefore(p).files

\* C8: a merge of a variation whose record names another source than the
\* caller's is rejected with exit code 1 before the strategy is selected and
\* before any later step; sources, variations and registry are as they were.
C8_OtherSourceRejected ==
  \A p \in Procs :
    /\ Merging(p) /\ Reached(p) /\ MetaBefore(p).present
    /\ MetaBefore(p).sourcePath # proc[p].sourcePath
    => /\ proc[p].pc \in {"select", "done"}
       /\ Ended(p) => proc[p].exit = 1
       /\ proc[p].strategy = "none"
       /\ ~HasAny(p, {"select", "rm", "delmeta"}) /\ ~RanGit(p) /\ ~RanMirror(p)
       /\ NothingChanged(p)

C8_Witness ==
  \E p \in Procs :
    /\ Merging(p) /\ Failed(p) /\ LastStep(p) = "other-source"
    /\ VarBefore(p).files # SrcBefore(p).files

\* C9 as claimed: a successful merge of a variation whose tree is as cloned
\* leaves the source tree as it was before the merge, whatever the source is.
C9_RoundTripAnySource ==
  \A p \in Procs :
    Merging(p) /\ Succeeded(p) /\ Untouched(p) => SameFiles(p)

\* C9 amended: a successful merge of a variation whose tree is as cloned, that
\* does not switch the source to a branch that existed already, leaves every
\* file of the source as it was before the merge that the source has not
\* changed since the clone (so the whole tree, when the source has not changed);
\* a file the source changed since may get its content of clone time.
C9_RoundTripUntouchedFiles ==
  \A p \in Procs :
    /\ Merging(p) /\ Succeeded(p) /\ Untouched(p)
    /\ Has(p, "checkout") => ~BranchExists(SrcBefore(p), proc[p].branchName)
    =>
      \A f \in Paths :
        SrcBefore(p).files[f] = VarBefore(p).origin[f] =>
          SrcNow(p).files[f] = SrcBefore(p).files[f]

C9_Witness ==
  \E p \in Procs :
    /\ Merging(p) /\ Succeeded(p) /\ Untouched(p) /\ ~Flag(p, "dry-run")
    /\ proc[p].strategy = "git" /\ proc[p].diff # {}
    /\ SrcBefore(p).files = VarBefore(p).origin

\* C10: a mirror merge without --delete removes no file of the source: at
\* every step every path the source had when the merge started is present.
C10_AdditiveMirror ==
  \A p \in Procs :
    Merging(p) /\ proc[p].strategy = "rsync" /\ ~Flag(p, "delete") =>
      Present(SrcBefore(p).files) \subseteq Present(SrcNow(p).files)

C10_Witness ==
  \E p \in Procs :
    /\ Merging(p) /\ Succeeded(p) /\ Has(p, "rsync") /\ ~Flag(p, "delete")
    /\ \E f \in Paths :
         /\ VarBefore(p).origin[f] # Absent
         /\ VarBefore(p).files[f] = Absent
         /\ SrcBefore(p).files[f] # Absent

\* C11: after a successful mirror merge with --delete that is no dry run,
\* every path the source had and the variation lacks is gone from the source
\* (and the tree of the source is the tree of the variation).
C11_DestructiveMirror ==
  \A p \in Procs :
    Merging(p) /\ Succeeded(p) /\ Has(p, "rsync") /\ Flag(p, "delete") =>
      /\ \A f \in Paths :
           SrcBefore(p).files[f] # Absent /\ VarBefore(p).files[f] = Absent
             => SrcNow(p).files[f] = Absent
      /\ SrcNow(p).files = VarBefore(p).files

C11_Witness ==
  \E p \in Procs :
    /\ Merging(p) /\ Succeeded(p) /\ Has(p, "rsync") /\ Flag(p, "delete")
    /\ \E f \in Paths :
         /\ SrcBefore(p).files[f] # Absent /\ VarBefore(p).files[f] = Absent
         /\ SrcNow(p).files[f] = Absent

\* C12: after a successful mirror merge that is no dry run, every file of the
\* variation is in the source with the content it has in the variation, and
\* without --delete every file that only the source had keeps its content.
C12_MirrorCopies ==
  \A p \in Procs :
    Merging(p) /\ Succeeded(p) /\ Has(p, "rsync") =>
      \A f \in Paths :
        /\ VarBefore(p).files[f] # Absent =>
             SrcNow(p).files[f] = VarBefore(p).files[f]
        /\ ~Flag(p, "delete") /\ VarBefore(p).files[f] = Absent =>
             SrcNow(p).files[f] = SrcBefore(p).files[f]

\* one file updated in the variation and overwritten in the source, and one
\* file removed in the variation and kept by the source
C12_Witness ==
  \E p \in Procs :
    /\ Merging(p) /\ Succeeded(p) /\ Has(p, "rsync") /\ ~Flag(p, "delete")
    /\ \E f, g \in Paths :
         /\ VarBefore(p).files[f] \notin {Absent, SrcBefore(p).files[f]}
         /\ SrcBefore(p).files[f] # Absent
         /\ SrcNow(p).files[f] = VarBefore(p).files[f]
         /\ VarBefore(p).files[g] = Absent
         /\ SrcBefore(p).files[g] # Absent
         /\ SrcNow(p).files[g] = SrcBefore(p).files[g]

C14_EnsureBranch ==
  \A p \in Procs :
    Merging(p) /\ proc[p].strategy = "git" /\ proc[p].wantsBranch
      /\ ~Flag(p, "dry-run") =>
      LET B == proc[p].branchName
      IN /\ Succeeded(p) => Has(p, "checkout")
         /\ Has(p, "checkout") =>
              /\ BranchExists(SrcNow(p), B) /\ SrcNow(p).branch = B
              /\ SrcNow(p).head = SrcNow(p).tips[B]
              /\ SrcNow(p).tips[B] =
                   IF BranchExists(SrcBefore(p), B)
                   THEN SrcBefore(p).tips[B] ELSE SrcBefore(p).head
              /\ \A b \in BranchNames \ {B} :
                   /\ SrcNow(p).tips[b] = SrcBefore(p).tips[b]
                   /\ BranchExists(SrcNow(p), b) <=> BranchExists(SrcBefore(p), b)

\* the branch existed, on another commit than the one the source was on
C14_Witness ==
  \E p \in Procs :
    /\ Merging(p) /\ Succeeded(p) /\ Has(p, "checkout")
    /\ BranchExists(SrcBefore(p), proc[p].branchName)
    /\ SrcBefore(p).tips[proc[p].branchName] # SrcBefore(p).head
    /\ SrcNow(p).branch = proc[p].branchName

\* C19: the source path of a command is the sourcePath of the registry record
\* whose variationPath is the working directory or a directory above it, and
\* the working directory itself when there is no such record.
C19_ContextAwareness ==
  \A p \in Procs :
    proc[p].cmd # "none" =>
      LET cwd == proc[p].cwd
          recs == {v \in VarPaths :
                     /\ pre[p].registry[v].present
                     /\ Len(cwd) >= Len(pre[p].registry[v].variationPath)
                     /\ SubSeq(cwd, 1, Len(pre[p].registry[v].variationPath))
                          = pre[p].registry[v].variationPath}
      IN IF recs # {}
         THEN \E v \in recs : proc[p].sourcePath = pre[p].registry[v].sourcePath
         ELSE SourceDir(proc[p].sourcePath) = cwd

\* a merge started inside the variation, resolved to the source and done
C19_Witness ==
  \E p \in Procs :
    /\ Merging(p) /\ Succeeded(p)
    /\ proc[p].cwd = Inside(proc[p].variationPath)
    /\ proc[p].sourcePath = SrcA
    /\ MetaBefore(p).sourcePath = SrcA

C16_RegistryMatchesDirectory ==
  (\A p \in Procs : proc[p].pc \in {"idle", "done"}) =>
    \A v \in VarPaths :
      /\ registry[v].present <=> vdir[v].exists
      /\ registry[v].present => registry[v].variationPath = v

\* C17: new for a name whose variation directory exists fails with exit code 1
\* at the check of the directory, copies nothing and writes no record; the
\* directory and the registry are what they were.
C17_NewOnExisting ==
  \A p \in Procs :
    proc[p].cmd = "new" /\ Reached(p) /\ VarBefore(p).exists =>
      /\ Failed(p)
      /\ proc[p].steps = <<"exists">>
      /\ NothingChanged(p)

C17_Witness ==
  \E p \in Procs :
    /\ proc[p].cmd = "new" /\ Failed(p) /\ LastStep(p) = "exists"
    /\ VarBefore(p).exists /\ MetaBefore(p).present /\ MetaBefore(p).hasBase
    /\ VarNow(p) = VarBefore(p) /\ MetaNow(p) = MetaBefore(p)

StepRank(step) ==
  CASE step \in {"name-required", "empty-path", "exists"} -> 0
    [] step \in {"select", "other-source", "empty-branch", "branch-needs-git"} -> 1
    [] step \in {"checkout", "no-checkout", "checkout-failed"} -> 2
    [] step \in {"diff", "diff-failed"} -> 3
    [] step \in {"apply", "apply-check", "no-apply", "apply-failed"} -> 4
    [] step \in {"lsfiles", "lsfiles-failed"} -> 5
    [] step \in {"copy", "copy-nothing", "no-copy", "copy-failed",
                 "copy-rsync-missing"} -> 6
    [] step \in {"rsync", "rsync-dry-run", "rsync-failed", "rsync-missing"} -> 6
    [] step \in {"rm", "rm-failed", "no-cleanup"} -> 7
    [] step = "delmeta" -> 8

\* the ranks of the steps of a merge, in the order of the code
StepOrder(strategy) ==
  IF strategy = "git" THEN <<0, 1, 2, 3, 4, 5, 6, 7, 8>> ELSE <<0, 1, 6, 7, 8>>

\* C20: the steps of a merge come in the order of the code, one at a time and
\* none left out: checkout, diff, apply, ls-files, copy of the untracked files
\* (or the one sync of the mirror), removal of the directory, removal of the
\* registry entry; the source changes branch only at the checkout, the
\* directory goes only at its removal, and the entry only after it.
C20_StepOrder ==
  \A p \in Procs :
    Merging(p) =>
      /\ Len(proc[p].steps) <= Len(StepOrder(proc[p].strategy))
      /\ \A i \in 1..Len(proc[p].steps) :
           StepRank(proc[p].steps[i]) = StepOrder(proc[p].strategy)[i]
      /\ SrcNow(p).branch # SrcBefore(p).branch => Has(p, "checkout")
      /\ Has(p, "apply") /\ proc[p].wantsBranch => Has(p, "checkout")
      /\ Reached(p) /\ VarBefore(p).exists /\ ~VarNow(p).exists => Has(p, "rm")
      /\ Reached(p) /\ MetaBefore(p).present /\ ~MetaNow(p).present =>
           Has(p, "delmeta") /\ ~VarNow(p).exists

\* a merge onto a branch that has done every step: the patch, the untracked
\* files, the removal of the directory and of the entry
C20_Witness ==
  \E p \in Procs :
    /\ Merging(p) /\ Succeeded(p)
    /\ proc[p].steps =
         <<"exists", "select", "checkout", "diff", "apply", "lsfiles", "copy",
           "rm", "delmeta">>

\* C21: a patch merge whose diff fails has run no apply and no copy of the
\* untracked files, one whose apply fails has run no copy of the untracked
\* files, and either ends there with exit code 1 and without cleanup: the
\* variation directory and the registry entry are what they were.
C21_ValidationFailuresStop ==
  \A p \in Procs :
    Merging(p) /\ HasAny(p, {"diff-failed", "apply-failed"}) =>
      /\ Failed(p)
      /\ LastStep(p) \in {"diff-failed", "apply-failed"}
      /\ Has(p, "diff-failed") =>
           ~HasAny(p, {"apply", "apply-check", "no-apply", "apply-failed"})
      /\ ~HasAny(p, {"lsfiles", "copy", "copy-nothing", "no-copy", "copy-failed",
                     "copy-rsync-missing", "rm", "rm-failed", "no-cleanup", "delmeta"})
      /\ Has(p, "diff-failed") /\ ~Has(p, "checkout") => SameFiles(p)
      /\ VarNow(p) = VarBefore(p) /\ MetaNow(p) = MetaBefore(p)

\* the patch did not apply: the source had changed the file the patch changes
C21_Witness ==
  \E p \in Procs :
    /\ Merging(p) /\ Failed(p) /\ LastStep(p) = "apply-failed"
    /\ ~PatchApplies(SrcBefore(p).files, proc[p].diff)
    /\ VarNow(p).exists /\ MetaNow(p).present

\* C22: a patch merge whose checkout fails ends there with exit code 1: no
\* diff, no apply, no copy, no cleanup, and the source, the variation
\* directory and the registry entry are what they were.
C22_CheckoutFailureAborts ==
  \A p \in Procs :
    Merging(p) /\ Has(p, "checkout-failed") =>
      /\ Failed(p)
      /\ proc[p].steps = <<"exists", "select", "checkout-failed">>
      /\ ~Flag(p, "dry-run") /\ proc[p].strategy = "git"
      /\ NothingChanged(p)

\* git refuses the checkout: the branch exists on another commit and a file
\* that differs between the two is modified in the source
C22_Witness ==
  \E p \in Procs :
    /\ Merging(p) /\ Failed(p) /\ LastStep(p) = "checkout-failed"
    /\ BranchExists(SrcBefore(p), proc[p].branchName)
    /\ ~CanCheckout(SrcBefore(p), proc[p].branchName)
    /\ VarNow(p).exists /\ MetaNow(p).present

\* C23: the copy of the untracked files writes the files git ls-files listed
\* in the variation and no other, each with the content it has in the
\* variation, removes no file of the source, and writes nothing in a dry run.
C23_UntrackedCopyExact ==
  [][\A p \in Procs :
       proc[p].cmd = "merge" /\ proc[p].pc = "copy" /\ proc'[p].pc # "copy" =>
         LET s == proc[p].sourcePath
             v == proc[p].variationPath
         IN /\ \A f \in Paths \ proc[p].files :
                 src'[s].files[f] = src[s].files[f]
            /\ \A f \in Paths :
                 src[s].files[f] # Absent => src'[s].files[f] # Absent
            /\ \A f \in proc[p].files :
                 src'[s].files[f] \in {src[s].files[f], vdir[v].files[f]}
            /\ LastStep(p)' = "copy" =>
                 \A f \in proc[p].files : src'[s].files[f] = vdir[v].files[f]
            /\ DryRun(p) => src' = src /\ LastStep(p)' = "no-copy"
            /\ src'[s].branch = src[s].branch
            /\ vdir' = vdir /\ registry' = registry]_vars

\* one untracked file copied, and a tracked file the source had changed left
C23_Witness ==
  \E p \in Procs :
    /\ Merging(p) /\ LastStep(p) = "copy" /\ proc[p].files # {}
    /\ \E f \in proc[p].files : SrcBefore(p).files[f] # VarBefore(p).files[f]
    /\ \E g \in Paths \ proc[p].files :
         /\ SrcNow(p).files[g] # VarBefore(p).files[g]
         /\ VarBefore(p).files[g] # Absent

\* C24: when new fails because the copy-on-write attempt and the full copy
\* both failed, no directory is at the variation path and the registry has no
\* entry for it.
C24_FailedCloneLeavesNothing ==
  \A p \in Procs :
    proc[p].cmd = "new" /\ Failed(p) /\ LastStep(p) = "copy-failed" =>
      ~VarNow(p).exists /\ ~MetaNow(p).present

\* C25: a failed copy-on-write attempt is followed by one full copy, made on
\* an empty destination; new fails if and only if that copy fails, and when
\* it succeeds new goes on to write the record and ends with exit code 0 on a
\* complete copy of the source.
C25_FallbackCopy ==
  \A p \in Procs :
    proc[p].cmd = "new" /\ Has(p, "cow-failed") =>
      /\ proc[p].steps \in {<<"exists", "cow-failed">>,
                            <<"exists", "cow-failed", "fallback">>,
                            <<"exists", "cow-failed", "copy-failed">>,
                            <<"exists", "cow-failed", "fallback", "meta">>}
      /\ Ended(p) => (Failed(p) <=> LastStep(p) = "copy-failed")
      /\ Ended(p) => (Succeeded(p) <=> Has(p, "fallback"))
      /\ Has(p, "fallback") =>
           VarNow(p).exists /\ VarNow(p).files = VarNow(p).origin
      /\ Succeeded(p) =>
           /\ MetaNow(p).present
           /\ MetaNow(p).variationPath = proc[p].variationPath
           /\ MetaNow(p).sourcePath = proc[p].sourcePath
           /\ VarNow(p).files = SrcNow(p).files

C25_Witness ==
  \E p \in Procs :
    /\ proc[p].cmd = "new" /\ Succeeded(p)
    /\ proc[p].steps = <<"exists", "cow-failed", "fallback", "meta">>
    /\ MetaNow(p).present /\ VarNow(p).files = SrcNow(p).files
    /\ \E f \in Paths : SrcNow(p).files[f] # Absent

C29_RsyncCheckedAfterPatch ==
  \A p \in Procs :
    /\ Merging(p) /\ Has(p, "copy-rsync-missing") =>
         /\ Failed(p) /\ LastStep(p) = "copy-rsync-missing"
         /\ proc[p].strategy = "git" /\ ~Flag(p, "dry-run")
         /\ Has(p, "diff") /\ HasAny(p, {"apply", "no-apply"}) /\ Has(p, "lsfiles")
         /\ Has(p, "apply") /\ ~Has(p, "checkout") =>
              SrcNow(p).files = ApplyPatch(SrcBefore(p).files, proc[p].diff)
         /\ VarNow(p) = VarBefore(p) /\ MetaNow(p) = MetaBefore(p)
    /\ Merging(p) /\ proc[p].strategy = "git" /\ Succeeded(p) /\ ~Flag(p, "dry-run") =>
         HasAny(p, {"copy", "copy-nothing"})
    /\ Merging(p) /\ proc[p].strategy = "git" /\ Flag(p, "dry-run") =>
         /\ ~HasAny(p, {"copy-rsync-missing", "copy", "copy-nothing", "copy-failed"})
         /\ Ended(p) /\ Has(p, "lsfiles") => Succeeded(p) /\ Has(p, "no-copy")

\* no untracked file, a patch that changed the source, and the failure
C29_Witness ==
  \E p \in Procs :
    /\ Merging(p) /\ Failed(p) /\ LastStep(p) = "copy-rsync-missing"
    /\ proc[p].files = {} /\ Has(p, "apply")
    /\ SrcNow(p).files # SrcBefore(p).files

\* C27: nothing makes a merge wait for another merge: a merge that has started
\* can take its next step wherever another merge is, also one of the same
\* variation that is between its checks and its cleanup. (The interleaving of
\* the claim, two merges of one variation that have both written to the source
\* before the cleanup of either, is the state C27_Witness.)
C27_NoLock ==
  \A p \in Procs, q \in Procs :
    /\ p # q
    /\ Merging(q) /\ proc[q].pc \notin {"idle", "done"}
    /\ Merging(p) /\ proc[p].pc \notin {"idle", "done"}
    => ENABLED (MergeSelect(p) \/ GitBranch(p) \/ GitDiffStep(p) \/ GitApply(p)
                  \/ GitLsFiles(p) \/ CopyUntracked(p) \/ RsyncMerge(p)
                  \/ MergeCleanup(p) \/ DeleteMeta(p))

C27_Witness ==
  \E p \in Procs, q \in Procs :
    /\ p # q
    /\ Merging(p) /\ Merging(q)
    /\ proc[p].variationPath = proc[q].variationPath
    /\ proc[p].sourcePath = proc[q].sourcePath
    /\ ~Flag(p, "dry-run") /\ ~Flag(q, "dry-run")
    /\ HasAny(p, {"apply", "rsync"}) /\ HasAny(q, {"apply", "rsync"})
    /\ ~HasAny(p, {"rm", "rm-failed", "no-cleanup", "delmeta"})
    /\ ~HasAny(q, {"rm", "rm-failed", "no-cleanup", "delmeta"})
    /\ Has(p, "apply") /\ Has(q, "apply")
    /\ VarNow(p).exists /\ MetaNow(p).present

C30_HasValue(argv, i) ==
  i + 1 <= Len(argv) /\ argv[i + 1] # <<>> /\ ~Dashed(argv[i + 1])

C30_TakesValue(argv, i) ==
  argv[i] \in {<<"--", "branch">>, <<"--", "shell">>} /\ C30_HasValue(argv, i)

C30_IsValue(argv, i) == i > 1 /\ C30_TakesValue(argv, i - 1)

C30_BranchSetAt(argv, i) ==
  \/ argv[i] = <<"--", "branch">> /\ C30_HasValue(argv, i)
  \/ Dashed(argv[i]) /\ Len(argv[i]) >= 3 /\ argv[i][2] = "branch" /\ argv[i][3] = "="

====
